---- MODULE Spec2Model ----
(***************************************************************************)
(* Model of the package build scheduler of ubuntu/build_deb.py             *)
(* (PackageBuilder.detect_cycle, build_all_packages,                       *)
(* build_specific_package) as driven by ubuntu/build.py.                   *)
(***************************************************************************)
EXTENDS Integers, Sequences, FiniteSets, TLC

\* Binary package names that control files may declare or depend on.
Names == {"a", "b", "c"}

\* Largest number of Package: and Build-Depends entries, summed over the
\* control files found by load_packages.
MaxEntries == 5

\* 'packages' and 'dependencies' of one descriptor are Python sets; a
\* descriptor with no Package: line ends the session in
\* get_packages_from_control, so 'packages' is never empty.
Descriptor == [packages : (SUBSET Names) \ {{}}, dependencies : SUBSET Names]

Entries(d) == Cardinality(d.packages) + Cardinality(d.dependencies)

\* self.packages after load_packages: a dict, iterated in insertion order;
\* one descriptor for each debian folder of the source tree.
RECURSIVE TablesWithin(_)
TablesWithin(budget) ==
    {<<>>} \cup
    UNION {{<<d>> \o t : t \in TablesWithin(budget - Entries(d))} :
             d \in {e \in Descriptor : Entries(e) <= budget}}

Tables == TablesWithin(MaxEntries)

\* The iteration order of a Python set is unspecified: it is modelled by a
\* ranking of the names, chosen freely for each run of detect_cycle.
Ranks == {rk \in [Names -> 1..Cardinality(Names)] :
            \A x, y \in Names : x # y => rk[x] # rk[y]}

Range(s) == {s[i] : i \in 1..Len(s)}

RECURSIVE SetToSeq(_, _)
SetToSeq(S, rk) ==
    IF S = {} THEN <<>>
    ELSE LET m == CHOOSE x \in S : \A y \in S : rk[x] <= rk[y]
         IN  <<m>> \o SetToSeq(S \ {m}, rk)

(***************************************************************************)
(* detect_cycle                                                            *)
(***************************************************************************)

\* for repo in self.packages: for binary in ...['packages']
RECURSIVE Binaries(_, _, _)
Binaries(pk, rk, repo) ==
    IF repo > Len(pk) THEN <<>>
    ELSE SetToSeq(pk[repo].packages, rk) \o Binaries(pk, rk, repo + 1)

\* The (dependency, binary) pairs of one repo in the order of the nested
\* loops: for binary in packages: for dependency in dependencies.
RepoEdges(bins, deps) ==
    [k \in 1..(Len(bins) * Len(deps)) |->
        <<deps[((k - 1) % Len(deps)) + 1], bins[((k - 1) \div Len(deps)) + 1]>>]

RECURSIVE Edges(_, _, _)
Edges(pk, rk, repo) ==
    IF repo > Len(pk) THEN <<>>
    ELSE RepoEdges(SetToSeq(pk[repo].packages, rk),
                   SetToSeq(pk[repo].dependencies, rk))
         \o Edges(pk, rk, repo + 1)

\* in_degree and graph are dicts: keys holds their keys in insertion order.
EmptyGraph ==
    [keys |-> <<>>, in_degree |-> [v \in Names |-> 0], graph |-> [v \in Names |-> <<>>]]

\* in_degree[binary] = 0; graph[binary] = []
AddBinary(g, binary) ==
    [keys      |-> IF binary \in Range(g.keys) THEN g.keys ELSE Append(g.keys, binary),
     in_degree |-> [g.in_degree EXCEPT ![binary] = 0],
     graph     |-> [g.graph EXCEPT ![binary] = <<>>]]

\* if dependency not in in_degree: ...; graph[dependency].append(binary);
\* in_degree[binary] += 1
AddEdgeReversed(g, e) ==
    LET g1 == IF e[1] \in Range(g.keys) THEN g ELSE AddBinary(g, e[1])
    IN  [g1 EXCEPT !.graph[e[2]] = Append(@, e[1]), !.in_degree[e[1]] = @ + 1]

AddEdge(g, e) ==
    LET g1 == IF e[1] \in Range(g.keys) THEN g ELSE AddBinary(g, e[1])
    IN  [g1 EXCEPT !.graph[e[1]] = Append(@, e[2]), !.in_degree[e[2]] = @ + 1]

RECURSIVE AddBinaries(_, _, _)
AddBinaries(g, bins, k) ==
    IF k > Len(bins) THEN g ELSE AddBinaries(AddBinary(g, bins[k]), bins, k + 1)

RECURSIVE AddEdges(_, _, _)
AddEdges(g, es, k) ==
    IF k > Len(es) THEN g ELSE AddEdges(AddEdge(g, es[k]), es, k + 1)

BuildGraph(pk, rk) ==
    AddEdges(AddBinaries(EmptyGraph, Binaries(pk, rk, 1), 1), Edges(pk, rk, 1), 1)

\* min(in_degree, key=in_degree.get): the first key of least in-degree.
min_pkg(g) ==
    LET i == CHOOSE i \in 1..Len(g.keys) :
                /\ \A j \in 1..Len(g.keys) :
                      g.in_degree[g.keys[i]] <= g.in_degree[g.keys[j]]
                /\ \A j \in 1..(i - 1) :
                      g.in_degree[g.keys[j]] > g.in_degree[g.keys[i]]
    IN  g.keys[i]

\* in_degree[dependent] -= 1; if in_degree[dependent] == 0: queue.append
Decrement(st, dependent) ==
    LET n == st.in_degree[dependent] - 1
    IN  [st EXCEPT !.in_degree[dependent] = n,
                   !.queue = IF n = 0 THEN Append(@, dependent) ELSE @]

RECURSIVE Relax(_, _, _)
Relax(st, dependents, k) ==
    IF k > Len(dependents) THEN st
    ELSE Relax(Decrement(st, dependents[k]), dependents, k + 1)

\* while queue: pkg = queue.popleft(); sorted_order.append(pkg); ...
RECURSIVE Drain(_, _)
Drain(st, graph) ==
    IF st.queue = <<>> THEN st
    ELSE LET pkg == Head(st.queue)
             st1 == [st EXCEPT !.queue = Tail(@), !.sorted_order = Append(@, pkg)]
         IN  Drain(Relax(st1, graph[pkg], 1), graph)

\* The vertices left with a positive in-degree after the queue is drained.
cycle_nodes(g, st) == SelectSeq(g.keys, LAMBDA v : st.in_degree[v] > 0)

\* The result of detect_cycle: halted is the bare 'return' (None), otherwise
\* sorted_order is returned; forced lists the vertices forced into the queue.
detect_cycle(pk, rk) ==
    IF Len(pk) = 0
    THEN [halted |-> FALSE, sorted_order |-> <<>>, forced |-> <<>>]
    ELSE LET g      == BuildGraph(pk, rk)
             q0     == SelectSeq(g.keys, LAMBDA v : g.in_degree[v] = 0)
             forced == IF q0 = <<>> THEN <<min_pkg(g)>> ELSE <<>>
             st     == Drain([queue |-> q0 \o forced, sorted_order |-> <<>>,
                              in_degree |-> g.in_degree], g.graph)
             halt   == Len(cycle_nodes(g, st)) > 0
         IN  [halted       |-> halt,
              sorted_order |-> IF halt THEN <<>> ELSE st.sorted_order,
              forced       |-> forced]

(***************************************************************************)
(* The build session of build.py: load_packages, then either               *)
(* build_specific_package(BUILD_PACKAGE_NAME) or build_all_packages().     *)
(***************************************************************************)

VARIABLES
    packages,      \* self.packages: the descriptor table
    visited,       \* self.packages[package]['visited']
    status,        \* where the session is, or the exception that ended it
    package_name,  \* BUILD_PACKAGE_NAME ("" when every package is built)
    order,         \* what detect_cycle returned to build_all_packages
    idx,           \* position of 'for pkg in sorted_order'
    stack,         \* activation records of build_specific_package
    requested,     \* the recursive calls build_specific_package(dep), in order
    built          \* the build_package invocations, in order, with their outcome

(***************************************************************************)
(* The ABI checking phase of build.py: multiple_repo_deb_abi_checker over  *)
(* the folders of DEB_OUT_TEMP_DIR (scripts/deb_abi_checker.py).           *)
(***************************************************************************)

VARIABLES
    dirs,                    \* the folders of the batch, each the core .deb files it holds
    global_checker_results,  \* package name -> ABI_DIFF_Result
    pc,                      \* where the ABI phase is, or how it ended
    folder,                  \* position of 'for folder in os.listdir(...)'
    file,                    \* position of 'for deb_file in deb_files'
    frame,                   \* the locals of the running single_package_abi_checker
    ret,                     \* what single_package_abi_checker returned
    repo_ret,                \* final_ret of single_repo_deb_abi_checker
    final_ret                \* final_ret of multiple_repo_deb_abi_checker

builderVars == <<packages, visited, status, package_name, order, idx, stack, requested, built>>

abiVars == <<dirs, global_checker_results, pc, folder, file, frame, ret, repo_ret, final_ret>>

vars == <<builderVars, abiVars>>

\* A report of the diff tool without its summary line.
NoSummary == [summary |-> FALSE, removed |-> 0, changed |-> 0]

\* The locals of single_package_abi_checker before any of them is assigned;
\* a path is "None" or "file", a version the sequence of its tokens, a list
\* of file names its length, and abi_pkg_diff_output the report where the
\* summary line is searched in it.
NoFrame ==
    [new_version |-> <<>>, deb_dev_files |-> 0, deb_dev_file |-> 0, deb_ddeb_files |-> 0,
     new_dev_path |-> "None", new_ddeb_path |-> "None",
     old_version |-> <<>>, old_dev_path |-> "None", old_ddeb_path |-> "None",
     abidiff_result |-> 0, bit4 |-> 0, abi_pkg_diff_output |-> NoSummary]

\* Before the ABI checking phase: nothing compared, nothing recorded.
AbiNotStarted ==
    /\ dirs = <<>>
    /\ global_checker_results = <<>>
    /\ pc = "not started"
    /\ folder = 0
    /\ file = 0
    /\ frame = NoFrame
    /\ ret = 0
    /\ repo_ret = 0
    /\ final_ret = 0

NoOrder == [halted |-> FALSE, sorted_order |-> <<>>, forced |-> <<>>]

\* load_packages: every descriptor starts with "visited": False.
Init ==
    /\ packages \in Tables
    /\ visited = [i \in DOMAIN packages |-> FALSE]
    /\ status = "loaded"
    /\ package_name = ""
    /\ order = NoOrder
    /\ idx = 0
    /\ stack = <<>>
    /\ requested = <<>>
    /\ built = <<>>
    /\ AbiNotStarted

\* for package in self.packages: if not visited: if name in packages: the
\* first descriptor the scan of the table stops at, 0 when it reaches the end.
FindShort(pk, vis, name) ==
    LET hits == {i \in DOMAIN pk : i < Len(pk) /\ ~vis[i] /\ name \in pk[i].packages}
    IN  IF hits = {} THEN 0 ELSE CHOOSE i \in hits : \A j \in hits : i <= j

FindVisitedToo(pk, vis, name) ==
    LET hits == {i \in DOMAIN pk : name \in pk[i].packages}
    IN  IF hits = {} THEN 0 ELSE CHOOSE i \in hits : \A j \in hits : i <= j

Find(pk, vis, name) ==
    LET hits == {i \in DOMAIN pk : ~vis[i] /\ name \in pk[i].packages}
    IN  IF hits = {} THEN 0 ELSE CHOOSE i \in hits : \A j \in hits : i <= j

(***************************************************************************)
(* build_all_packages                                                      *)
(***************************************************************************)

\* sorted_order = self.detect_cycle(); 'for pkg in None' raises TypeError.
DetectCycle ==
    /\ status = "loaded"
    /\ \E rk \in Ranks :
          LET r == detect_cycle(packages, rk)
          IN  /\ order' = r
              /\ status' = IF r.halted THEN "TypeError"
                           ELSE IF Len(r.sorted_order) = 0 THEN "done" ELSE "all"
    /\ idx' = 1
    /\ UNCHANGED <<packages, visited, package_name, stack, requested, built>>
    /\ UNCHANGED abiVars

\* One turn of 'for pkg in sorted_order': no unvisited descriptor produces pkg.
SkipName ==
    /\ status = "all"
    /\ Find(packages, visited, order.sorted_order[idx]) = 0
    /\ idx' = idx + 1
    /\ status' = IF idx' > Len(order.sorted_order) THEN "done" ELSE "all"
    /\ UNCHANGED <<packages, visited, package_name, order, stack, requested, built>>
    /\ UNCHANGED abiVars

\* One turn of 'for pkg in sorted_order': build_package(package), then
\* visited = True and break; PackageBuildError leaves build_all_packages.
BuildInOrder ==
    /\ status = "all"
    /\ LET package == Find(packages, visited, order.sorted_order[idx])
       IN  /\ package # 0
           /\ \E ok \in BOOLEAN :
                 /\ built' = Append(built, [package |-> package, ok |-> ok, pos |-> idx])
                 /\ IF ok
                    THEN /\ visited' = [visited EXCEPT ![package] = TRUE]
                         /\ idx' = idx + 1
                         /\ status' = IF idx' > Len(order.sorted_order)
                                      THEN "done" ELSE "all"
                    ELSE /\ status' = "PackageBuildError"
                         /\ UNCHANGED <<visited, idx>>
    /\ UNCHANGED <<packages, package_name, order, stack, requested>>
    /\ UNCHANGED abiVars

(***************************************************************************)
(* build_specific_package                                                  *)
(***************************************************************************)

\* A new activation for the descriptor the scan stopped at.
FrameNoDeps(pk, package) == [package |-> package, todo |-> {}]

Frame(pk, package) == [package |-> package, todo |-> pk[package].dependencies]

\* builder.build_specific_package(BUILD_PACKAGE_NAME) from build.py.
CallSpecific ==
    /\ status = "loaded"
    /\ \E n \in Names :
          /\ package_name' = n
          /\ LET package == Find(packages, visited, n)
             IN  IF package = 0
                 THEN /\ status' = "PackageNotFoundError"
                      /\ stack' = <<>>
                 ELSE /\ status' = "specific"
                      /\ stack' = <<Frame(packages, package)>>
    /\ UNCHANGED <<packages, visited, order, idx, requested, built>>
    /\ UNCHANGED abiVars

\* except PackageNotFoundError: logged, the loop over the dependencies goes on.
OnNotFoundRaise(stk) == <<>>

OnNotFound(stk) == stk

\* One turn of 'for dep in dependencies': visited = True, then the recursive
\* call, which either raises PackageNotFoundError or starts on a descriptor.
VisitDependency ==
    /\ status = "specific"
    /\ stack # <<>>
    /\ LET top == stack[Len(stack)]
       IN  \E dep \in top.todo :
              LET vis  == [visited EXCEPT ![top.package] = TRUE]
                  rest == [stack EXCEPT ![Len(stack)].todo = @ \ {dep}]
                  next == Find(packages, vis, dep)
              IN  /\ visited' = vis
                  /\ requested' = Append(requested, [package |-> top.package, dep |-> dep])
                  /\ stack' = IF next = 0 THEN OnNotFound(rest)
                              ELSE Append(rest, Frame(packages, next))
                  /\ status' = IF stack' = <<>> THEN "PackageNotFoundError"
                               ELSE "specific"
    /\ UNCHANGED <<packages, package_name, order, idx, built>>
    /\ UNCHANGED abiVars

\* except PackageBuildError: raise e, in every activation up to build.py.
OnBuildErrorSwallow(stk) == SubSeq(stk, 1, Len(stk) - 1)

OnBuildError(stk) == <<>>

\* self.build_package(package); return, once the dependencies are done.
BuildSpecific ==
    /\ status = "specific"
    /\ stack # <<>>
    /\ LET top == stack[Len(stack)]
       IN  /\ top.todo = {}
           /\ \E ok \in BOOLEAN :
                 /\ built' = Append(built, [package |-> top.package, ok |-> ok, pos |-> idx])
                 /\ stack' = IF ok THEN SubSeq(stack, 1, Len(stack) - 1)
                             ELSE OnBuildError(stack)
                 /\ status' = IF ~ok /\ stack' = <<>> THEN "PackageBuildError"
                              ELSE IF stack' = <<>> THEN "done" ELSE "specific"
    /\ UNCHANGED <<packages, visited, package_name, order, idx, requested>>
    /\ UNCHANGED abiVars

Next ==
    \/ DetectCycle
    \/ SkipName
    \/ BuildInOrder
    \/ CallSpecific
    \/ VisitDependency
    \/ BuildSpecific

Spec == Init /\ [][Next]_vars

(***************************************************************************)
(* The dependency graph of a descriptor table, as the properties speak of  *)
(* it: an edge d -> p for every descriptor that produces p and declares d. *)
(***************************************************************************)

Vertices(pk) == UNION {pk[i].packages \cup pk[i].dependencies : i \in DOMAIN pk}

DependsOn(pk) ==
    {e \in Names \X Names :
        \E i \in DOMAIN pk : e[1] \in pk[i].dependencies /\ e[2] \in pk[i].packages}

RECURSIVE Closure(_)
Closure(R) ==
    LET T == R \cup {g \in Names \X Names :
                        \E e \in R, f \in R : e[2] = f[1] /\ g = <<e[1], f[2]>>}
    IN  IF T = R THEN R ELSE Closure(T)

Acyclic(pk) == \A v \in Names : <<v, v>> \notin Closure(DependsOn(pk))

\* No vertex of in-degree 0, in a graph that has vertices.
NoEntryPoint(pk) ==
    /\ Vertices(pk) # {}
    /\ \A v \in Vertices(pk) : \E e \in DependsOn(pk) : e[2] = v

InDegree(pk, v) ==
    Cardinality({x \in (DOMAIN pk) \X Names :
                    v \in pk[x[1]].packages /\ x[2] \in pk[x[1]].dependencies})

Positions(s, v) == {i \in 1..Len(s) : s[i] = v}

\* build_all_packages has called detect_cycle.
Sorted == idx > 0

\* build_specific_package(package_name) has been called by build.py.
Targeted == package_name # ""

BuiltPackages == {built[k].package : k \in 1..Len(built)}

(***************************************************************************)
(* C1: for an acyclic descriptor table detect_cycle returns an order in    *)
(* which every dependency name d stands at a strictly smaller position     *)
(* than every package name p of a descriptor that declares d.              *)
(***************************************************************************)
C1_TopologicalOrder ==
    (Sorted /\ Acyclic(packages)) =>
        /\ ~order.halted
        /\ \A e \in DependsOn(packages) :
              /\ Positions(order.sorted_order, e[1]) # {}
              /\ Positions(order.sorted_order, e[2]) # {}
              /\ \A i \in Positions(order.sorted_order, e[1]),
                    j \in Positions(order.sorted_order, e[2]) : i < j

\* An acyclic table with a chain of two edges has been ordered.
C1_Witness ==
    /\ Sorted
    /\ Acyclic(packages)
    /\ \E e, f \in DependsOn(packages) : e[2] = f[1]
    /\ Len(order.sorted_order) = Cardinality(Names)

(***************************************************************************)
(* C2: when no vertex has in-degree 0, detect_cycle forces exactly one     *)
(* vertex, one of least in-degree, into the queue and then returns no      *)
(* build order.                                                            *)
(***************************************************************************)
C2_NoEntryPointHalts ==
    (Sorted /\ NoEntryPoint(packages)) =>
        /\ Len(order.forced) = 1
        /\ \A v \in Vertices(packages) :
              InDegree(packages, order.forced[1]) <= InDegree(packages, v)
        /\ order.halted

(***************************************************************************)
(* C3: when the dependency graph has a cycle, build_all_packages aborts    *)
(* with no build_package invocation and no descriptor marked visited.      *)
(***************************************************************************)
C3_CycleBuildsNothing ==
    (Sorted /\ ~Acyclic(packages)) =>
        /\ status # "done"
        /\ built = <<>>
        /\ \A i \in DOMAIN packages : ~visited[i]

(***************************************************************************)
(* C4: an order returned by detect_cycle holds every vertex of the graph   *)
(* (produced names and referenced dependency names) exactly once.          *)
(***************************************************************************)
C4_OrderIsPermutation ==
    (Sorted /\ ~order.halted) =>
        /\ Range(order.sorted_order) = Vertices(packages)
        /\ \A v \in Vertices(packages) :
              Cardinality(Positions(order.sorted_order, v)) = 1

(***************************************************************************)
(* C5: build_all_packages builds each descriptor at the first position of  *)
(* the order that names one of its packages, at most once, builds nothing  *)
(* for a name no descriptor produces, and so never builds a descriptor     *)
(* before a descriptor that produces one of its dependencies.              *)
(***************************************************************************)
C5_BuildFollowsOrder ==
    Sorted =>
        /\ \A k \in 1..Len(built) :
              LET b == built[k]
              IN  /\ order.sorted_order[b.pos] \in packages[b.package].packages
                  /\ \A i \in 1..(b.pos - 1) :
                        order.sorted_order[i] \notin packages[b.package].packages
                  /\ \A j \in 1..(k - 1) : built[j].package # b.package
                  /\ \A j \in 1..(k - 1) :
                        packages[b.package].packages
                            \cap packages[built[j].package].dependencies = {}
        /\ \A i \in 1..Len(order.sorted_order) :
              (\A d \in DOMAIN packages : order.sorted_order[i] \notin packages[d].packages)
                  => \A k \in 1..Len(built) : built[k].pos # i

(***************************************************************************)
(* The descriptor a name stands for in a fresh table (the first one that   *)
(* produces it, 0 when none does) and the descriptors a descriptor depends *)
(* on through locally produced names.                                      *)
(***************************************************************************)

ProducerOf(pk, n) ==
    LET hits == {i \in DOMAIN pk : n \in pk[i].packages}
    IN  IF hits = {} THEN 0 ELSE CHOOSE i \in hits : \A j \in hits : i <= j

LocalDeps(pk, i) == {ProducerOf(pk, d) : d \in pk[i].dependencies} \ {0}

RECURSIVE ReachDeps(_, _)
ReachDeps(pk, S) ==
    LET T == S \cup UNION {LocalDeps(pk, i) : i \in S}
    IN  IF T = S THEN S ELSE ReachDeps(pk, T)

TransDeps(pk, i) == ReachDeps(pk, LocalDeps(pk, i))

\* The descriptor build_specific_package(package_name) was called for.
Requested == ProducerOf(packages, package_name)

FailedBuilds == {k \in 1..Len(built) : ~built[k].ok}

(***************************************************************************)
(* C6: on an acyclic table, build_specific_package(n) invokes              *)
(* build_package for the descriptor of n only after build_package has      *)
(* completed for the descriptor of every locally produced dependency,      *)
(* transitively, and the descriptor of n is the last one built.            *)
(***************************************************************************)
C6_DependenciesFirst ==
    (Targeted /\ Acyclic(packages)) =>
        /\ \A k \in 1..Len(built) :
              built[k].package = Requested =>
                  /\ k = Len(built)
                  /\ \A d \in TransDeps(packages, Requested) :
                        \E j \in 1..(k - 1) : built[j].package = d /\ built[j].ok
        /\ status = "done" =>
              /\ built # <<>>
              /\ built[Len(built)].package = Requested

\* A targeted build has ended with the requested descriptor built after a
\* dependency of one of its dependencies.
C6_Witness ==
    /\ Targeted
    /\ Acyclic(packages)
    /\ status = "done"
    /\ TransDeps(packages, Requested) \ LocalDeps(packages, Requested) # {}
    /\ built[Len(built)].package = Requested

(***************************************************************************)
(* C7: during one build_specific_package call no descriptor is built more  *)
(* than once.                                                              *)
(***************************************************************************)
C7_BuiltOnce ==
    Targeted =>
        \A j, k \in 1..Len(built) : j # k => built[j].package # built[k].package

(***************************************************************************)
(* C8: when build_package fails for a dependency during                    *)
(* build_specific_package(n), PackageBuildError reaches the caller, the    *)
(* failed build is the last build_package invocation, and the descriptor   *)
(* of n is never built.                                                    *)
(***************************************************************************)
C8_BuildErrorPropagates ==
    (Targeted /\ FailedBuilds # {}) =>
        /\ status = "PackageBuildError"
        /\ stack = <<>>
        /\ FailedBuilds = {Len(built)}
        /\ built[Len(built)].package # Requested => Requested \notin BuiltPackages

\* The build of a dependency of a dependency has failed.
C8_Witness ==
    /\ Targeted
    /\ status = "PackageBuildError"
    /\ built # <<>>
    /\ built[Len(built)].package
          \in TransDeps(packages, Requested) \ ({Requested} \cup LocalDeps(packages, Requested))

(***************************************************************************)
(* C9: build_specific_package(n) on a fresh table raises                   *)
(* PackageNotFoundError exactly when no descriptor produces n, and then    *)
(* with no build_package invocation and no visited flag changed.           *)
(***************************************************************************)
C9_NotFoundIffNoProducer ==
    Targeted =>
        /\ (status = "PackageNotFoundError") <=> (Requested = 0)
        /\ status = "PackageNotFoundError" =>
              /\ built = <<>>
              /\ \A i \in DOMAIN packages : ~visited[i]

\* The requested name is only a dependency in a table of two descriptors.
C9_Witness ==
    /\ Targeted
    /\ status = "PackageNotFoundError"
    /\ Len(packages) = 2
    /\ \E i \in DOMAIN packages : package_name \in packages[i].dependencies

(***************************************************************************)
(* C10: in build_specific_package a dependency name that no local          *)
(* descriptor produces does not abort the build: unless a build fails, the *)
(* remaining dependencies of the descriptor are still visited and the      *)
(* descriptor itself is built.                                             *)
(***************************************************************************)
C10_MissingDependencyTolerated ==
    Targeted =>
        \A r \in 1..Len(requested) :
            ProducerOf(packages, requested[r].dep) = 0 =>
                /\ status # "PackageNotFoundError"
                /\ \/ status = "PackageBuildError"
                   \/ \E f \in 1..Len(stack) : stack[f].package = requested[r].package
                   \/ /\ \E k \in 1..Len(built) :
                            built[k].package = requested[r].package /\ built[k].ok
                      /\ \A d \in packages[requested[r].package].dependencies :
                            \E q \in 1..Len(requested) :
                               /\ requested[q].package = requested[r].package
                               /\ requested[q].dep = d

\* A descriptor was built after a dependency nobody produces was looked
\* up and then a second, locally produced, dependency was built.
C10_Witness ==
    /\ Targeted
    /\ status = "done"
    /\ \E r, q \in 1..Len(requested) :
          /\ r < q
          /\ requested[r].package = requested[q].package
          /\ ProducerOf(packages, requested[r].dep) = 0
          /\ ProducerOf(packages, requested[q].dep) \notin {0, requested[r].package}
          /\ requested[r].package \in BuiltPackages
          /\ ProducerOf(packages, requested[q].dep) \in BuiltPackages


(***************************************************************************)
(* scripts/deb_abi_checker.py: the return codes, the version strings and   *)
(* the version policy check.                                               *)
(***************************************************************************)

RETURN_ABI_NO_DIFF == 0
RETURN_ABI_COMPATIBLE_DIFF == 1
RETURN_ABI_INCOMPATIBLE_DIFF == 2
RETURN_ABI_STRIPPED_PACKAGE == 4
RETURN_PPA_PACKAGE_NOT_FOUND == 8
RETURN_PPA_ERROR == 16

\* n & (1 << k), shifted down: bit k of a non-negative integer.
Bit(n, k) == (n \div (2 ^ k)) % 2

\* a | b on Python integers; -1 has every bit set.
RECURSIVE BitOr(_, _)
BitOr(a, b) ==
    IF a = -1 \/ b = -1 THEN -1
    ELSE IF a = 0 THEN b
    ELSE IF b = 0 THEN a
    ELSE 2 * BitOr(a \div 2, b \div 2) + (IF a % 2 = 1 \/ b % 2 = 1 THEN 1 ELSE 0)

\* A version string is the sequence of its tokens: runs of digits and the
\* separators between them ("1.2.3-1" is <<"1", ".", "2", ".", "3", "-", "1">>,
\* "1:1.1.1" has an epoch and "1.2" no patch component).
Numerals == <<"0", "1", "2">>

Digits == {Numerals[i] : i \in DOMAIN Numerals}

\* int(s) of a run of digits.
int(s) == (CHOOSE i \in DOMAIN Numerals : Numerals[i] = s) - 1

\* re.match(r'^(\d+\.\d+\.\d+)', version)
UpstreamMatch(version) ==
    /\ Len(version) >= 5
    /\ version[1] \in Digits /\ version[2] = "." /\ version[3] \in Digits
    /\ version[4] = "." /\ version[5] \in Digits

extract_upstream_version(version) ==
    IF UpstreamMatch(version) THEN SubSeq(version, 1, 5) ELSE version

\* re.match(r"^\d+\.\d+\.\d+(-\d+)?$", version)
version_pattern(version) ==
    /\ UpstreamMatch(version)
    /\ \/ Len(version) = 5
       \/ Len(version) = 7 /\ version[6] = "-" /\ version[7] \in Digits

\* version.split('-')[0]
BeforeDash(version) ==
    LET dashes == {i \in DOMAIN version : version[i] = "-"}
    IN  IF dashes = {} THEN version
        ELSE SubSeq(version, 1, (CHOOSE i \in dashes : \A j \in dashes : i <= j) - 1)

\* list(map(int, version.split('.'))) of a string of digits and dots.
Parts(version) == [i \in 1..((Len(version) + 1) \div 2) |-> int(version[2 * i - 1])]

IndexOf(index) == CASE index = "major" -> 1 [] index = "minor" -> 2 [] index = "patch" -> 3

version_bumpedOrEqual(old_version, new_version, index) ==
    Parts(BeforeDash(new_version))[IndexOf(index)]
        >= Parts(BeforeDash(old_version))[IndexOf(index)]

version_bumped(old_version, new_version, index) ==
    Parts(BeforeDash(new_version))[IndexOf(index)]
        > Parts(BeforeDash(old_version))[IndexOf(index)]

\* The three ValueError exits of analyze_abi_diff_result, in the order taken.
PolicyRaisesNewOnly(old_version, new_version, abidiff_result) ==
    \/ ~version_pattern(extract_upstream_version(new_version))
    \/ Bit(abidiff_result, 0) = 1 \/ Bit(abidiff_result, 1) = 1
    \/ Bit(abidiff_result, 3) = 1 /\ Bit(abidiff_result, 2) = 0

PolicyRaisesNoBit4Test(old_version, new_version, abidiff_result) ==
    \/ ~version_pattern(extract_upstream_version(old_version))
    \/ ~version_pattern(extract_upstream_version(new_version))
    \/ Bit(abidiff_result, 0) = 1 \/ Bit(abidiff_result, 1) = 1

PolicyRaises(old_version, new_version, abidiff_result) ==
    \/ ~version_pattern(extract_upstream_version(old_version))
    \/ ~version_pattern(extract_upstream_version(new_version))
    \/ Bit(abidiff_result, 0) = 1 \/ Bit(abidiff_result, 1) = 1
    \/ Bit(abidiff_result, 3) = 1 /\ Bit(abidiff_result, 2) = 0

\* if major_bumped: ... elif minor_bumped: ... elif patch_bumped: ... else:
\* the component the verdict speaks of.
BumpedLowestFirst(major_bumped, minor_bumped, patch_bumped) ==
    IF patch_bumped THEN "Patch"
    ELSE IF minor_bumped THEN "Minor"
    ELSE IF major_bumped THEN "Major"
    ELSE "No"

Bumped(major_bumped, minor_bumped, patch_bumped) ==
    IF major_bumped THEN "Major"
    ELSE IF minor_bumped THEN "Minor"
    ELSE IF patch_bumped THEN "Patch"
    ELSE "No"

\* The verdict of the three if/elif chains; raised is TRUE for a ValueError.
analyze_abi_diff_result(old_version, new_version, abidiff_result) ==
    IF PolicyRaises(old_version, new_version, abidiff_result)
    THEN [raised |-> TRUE, result |-> "None"]
    ELSE
    LET old == extract_upstream_version(old_version)
        new == extract_upstream_version(new_version)
        abi_change == Bit(abidiff_result, 2) = 1
        incompatible_abi_change == Bit(abidiff_result, 3) = 1
        bumped == Bumped(version_bumped(old, new, "major"),
                         version_bumped(old, new, "minor"),
                         version_bumped(old, new, "patch"))
        result ==
            IF incompatible_abi_change THEN
                CASE bumped = "Major" -> "PASS : Major version increased"
                  [] bumped = "Minor" ->
                         "FAIL : Minor version increased, needed major increase"
                  [] bumped = "Patch" ->
                         "FAIL : Patch version increased, needed major increase"
                  [] bumped = "No" -> "FAIL : No version increase"
            ELSE IF abi_change THEN
                CASE bumped = "Major" -> "PASS : Major version increased"
                  [] bumped = "Minor" -> "PASS : Minor version increased"
                  [] bumped = "Patch" ->
                         "FAIL : Patch version increased, needed minor increase"
                  [] bumped = "No" -> "FAIL : No version increase"
            ELSE
                CASE bumped = "Major" -> "PASS : Major version increased"
                  [] bumped = "Minor" -> "PASS : Minor version increased"
                  [] bumped = "Patch" -> "PASS : Patch version increased"
                  [] bumped = "No" -> "PASS : No version increase"
    IN  [raised |-> FALSE, result |-> result]


(***************************************************************************)
(* What one comparison reads from its environment: the listing of the      *)
(* folder of the new packages, the APT server, the diff tool.              *)
(***************************************************************************)

MaxCandidates == 2

\* The core .deb files of the folders of a batch, by package name.
Batches ==
    { <<<<"p">>, <<"p">>>>, <<<<"p", "p">>>>, <<<<>>, <<"p">>>> }

Version(major, minor, patch) == <<major, ".", minor, ".", patch>>

\* The version field of the file name of the new core package.
NewVersions ==
    { Version("1", "1", "1"), Version("1", "1", "2"), Version("1", "2", "1"),
      Version("2", "1", "1"), Version("1", "2", "2"), Version("2", "2", "2"),
      Version("0", "2", "1"), <<"1", ".", "2">> }

\* The version field of the file name of the downloaded package.
OldVersions ==
    {Version("1", "1", "1") \o <<"-", "1">>, <<"1", ":">> \o Version("1", "1", "1")}

\* len(deb_dev_files), and how many of them hold "<name without major>-dev".
DevListings ==
    {l \in [deb_dev_files : 0..MaxCandidates, deb_dev_file : 0..MaxCandidates] :
        l.deb_dev_file <= l.deb_dev_files}

\* The exit status of abipkgdiff: the four bits of the tool, and one above.
ExitStatuses == 0..16

\* The text of the report: with or without its "Functions changes summary:
\* <removed> Removed, <changed> Changed," line.
Reports ==
    {NoSummary,
     [summary |-> TRUE, removed |-> 1, changed |-> 0],
     [summary |-> TRUE, removed |-> 0, changed |-> 1]}

(***************************************************************************)
(* single_package_abi_checker, up to the call of the diff tool.            *)
(***************************************************************************)

\* ABI_DIFF_Result(package_name): the fields the comparison writes that the
\* report shows as names, classification, remark and version check.
ABI_DIFF_Result ==
    [new_dev_name |-> "None", new_ddeb_name |-> "None", old_deb_name |-> "None",
     abi_pkg_diff_result |-> "None", abi_pkg_diff_remark |-> "None",
     abi_pkg_diff_version_check |-> "None"]

\* global_checker_results[package_name] = result
StoreIfAbsent(table, name, result) ==
    [n \in DOMAIN table \cup {name} |-> IF n \in DOMAIN table THEN table[n] ELSE result]

Store(table, name, result) ==
    [n \in DOMAIN table \cup {name} |-> IF n = name THEN result ELSE table[n]]

\* The -dev.deb of the new package: none, the only one, the one left by the
\* filter on "<name without major>-dev", or deb_dev_file[0] of an empty list.
new_dev_nameFirst(listing) ==
    IF listing.deb_dev_files = 0 THEN "None" ELSE "file"

new_dev_name(listing) ==
    IF listing.deb_dev_files = 0 THEN "None"
    ELSE IF listing.deb_dev_files = 1 THEN "file"
    ELSE IF listing.deb_dev_file > 1 THEN "ERROR : multiple detected"
    ELSE IF listing.deb_dev_file = 0 THEN "IndexError"
    ELSE "file"

\* The -dbgsym.ddeb of the new package.
new_ddeb_name(deb_ddeb_files) ==
    IF deb_ddeb_files = 0 THEN "None"
    ELSE IF deb_ddeb_files = 1 THEN "file"
    ELSE "ERROR : multiple detected"

Path(name) == IF name = "file" THEN "file" ELSE "None"


(***************************************************************************)
(* single_package_abi_checker, from the exit status of the diff tool on.   *)
(***************************************************************************)

\* bit1: abipkgdiff encountered an error.
ToolErrorAny(abidiff_result) == abidiff_result # 0

ToolError(abidiff_result) == Bit(abidiff_result, 0) = 1

\* bit2: abipkgdiff usage error, seen for stripped packages.
StrippedOnly(abidiff_result) == abidiff_result = 2

Stripped(abidiff_result) == Bit(abidiff_result, 1) = 1

\* int(match.group(2)) of the summary line of the report.
changed_countGroup1(output) == output.removed

changed_count(output) == output.changed

\* if bit3: match = re.search(...): the summary line is looked for.
Match(abidiff_result, output) == Bit(abidiff_result, 2) = 1 /\ output.summary

\* if bit3: ... if match: if changed_count > 0
Escalated(abidiff_result, output) ==
    Match(abidiff_result, output) /\ changed_count(output) > 0

\* The if chain on bit1..bit4: how it is left, the classification written to
\* the record, return_value, abidiff_result as the policy check gets it, bit4
\* as taken before the override, and the report if it was searched.
Classify(abidiff_result, output) ==
    IF abidiff_result = 0
    THEN [exit |-> "continue", abi_pkg_diff_result |-> "NO-DIFF",
          return_value |-> RETURN_ABI_NO_DIFF, abidiff_result |-> abidiff_result,
          bit4 |-> Bit(abidiff_result, 3), abi_pkg_diff_output |-> NoSummary]
    ELSE IF ToolError(abidiff_result)
    THEN [exit |-> "raise", abi_pkg_diff_result |-> "ERROR",
          return_value |-> 0, abidiff_result |-> abidiff_result,
          bit4 |-> Bit(abidiff_result, 3), abi_pkg_diff_output |-> NoSummary]
    ELSE IF Stripped(abidiff_result)
    THEN [exit |-> "return", abi_pkg_diff_result |-> "STRIPPED-PACKAGE",
          return_value |-> RETURN_ABI_STRIPPED_PACKAGE, abidiff_result |-> abidiff_result,
          bit4 |-> Bit(abidiff_result, 3), abi_pkg_diff_output |-> NoSummary]
    ELSE LET incompatible ==
                 Escalated(abidiff_result, output) \/ Bit(abidiff_result, 3) = 1
         IN  [exit |-> "continue",
              abi_pkg_diff_result |->
                  IF incompatible THEN "INCOMPATIBLE-DIFF"
                  ELSE IF Bit(abidiff_result, 2) = 1 THEN "COMPATIBLE-DIFF"
                  ELSE "None",
              return_value |->
                  IF incompatible THEN RETURN_ABI_INCOMPATIBLE_DIFF
                  ELSE IF Bit(abidiff_result, 2) = 1 THEN RETURN_ABI_COMPATIBLE_DIFF
                  ELSE 0,
              abidiff_result |->
                  IF Escalated(abidiff_result, output)
                  THEN BitOr(abidiff_result, 8) ELSE abidiff_result,
              bit4 |-> Bit(abidiff_result, 3),
              abi_pkg_diff_output |->
                  IF Bit(abidiff_result, 2) = 1 THEN output ELSE NoSummary]

\* result.abi_pkg_diff_remark after the two 'is None' tests.
Remark(f) ==
    LET dev == f.old_dev_path = "None" \/ f.new_dev_path = "None"
        dbg == f.old_ddeb_path = "None" \/ f.new_ddeb_path = "None"
    IN  IF dev /\ dbg THEN "NO-DEV-PACKAGE, NO-DBG-PACKAGE"
        ELSE IF dev THEN "NO-DEV-PACKAGE"
        ELSE IF dbg THEN "NO-DBG-PACKAGE"
        ELSE "None"

(***************************************************************************)
(* multiple_repo_deb_abi_checker(DEB_OUT_TEMP_DIR, APT_SERVER_CONFIG[0])   *)
(***************************************************************************)

\* The call from build.py, on a results table that is still empty.
InitAbi ==
    /\ packages = <<>>
    /\ visited = <<>>
    /\ status = "done"
    /\ package_name = ""
    /\ order = NoOrder
    /\ idx = 0
    /\ stack = <<>>
    /\ requested = <<>>
    /\ built = <<>>
    /\ dirs \in Batches
    /\ global_checker_results = <<>>
    /\ pc = "multiple_repo"
    /\ folder = 1
    /\ file = 0
    /\ frame = NoFrame
    /\ ret = 0
    /\ repo_ret = 0
    /\ final_ret = 0

\* One turn of 'for folder': single_repo_deb_abi_checker up to its loop; a
\* folder without a core .deb returns RETURN_ABI_NO_DIFF at once.
EnterFolder ==
    /\ pc = "multiple_repo"
    /\ folder <= Len(dirs)
    /\ IF dirs[folder] = <<>>
       THEN /\ final_ret' = BitOr(final_ret, RETURN_ABI_NO_DIFF)
            /\ folder' = folder + 1
            /\ UNCHANGED <<pc, file, repo_ret>>
       ELSE /\ repo_ret' = 0
            /\ file' = 1
            /\ pc' = "single_repo"
            /\ UNCHANGED <<folder, final_ret>>
    /\ UNCHANGED <<dirs, global_checker_results, frame, ret>>
    /\ UNCHANGED builderVars

\* One turn of 'for deb_file': a fresh record replaces whatever the table
\* holds under the name, then single_package_abi_checker looks for the -dev
\* and -dbgsym packages of the folder.
LocateNew ==
    /\ pc = "single_repo"
    /\ \E new_version \in NewVersions, listing \in DevListings,
          deb_ddeb_files \in 0..MaxCandidates :
          LET name   == dirs[folder][file]
              dev    == new_dev_name(listing)
              ddeb   == new_ddeb_name(deb_ddeb_files)
              result == [ABI_DIFF_Result EXCEPT
                            !.new_dev_name = IF dev = "IndexError" THEN "None" ELSE dev,
                            !.new_ddeb_name =
                                IF dev \in {"None", "file"} THEN ddeb ELSE "None"]
          IN  /\ global_checker_results' = Store(global_checker_results, name, result)
              /\ frame' = [NoFrame EXCEPT
                              !.new_version = new_version,
                              !.deb_dev_files = listing.deb_dev_files,
                              !.deb_dev_file =
                                  IF listing.deb_dev_files > 1
                                  THEN listing.deb_dev_file ELSE 0,
                              !.deb_ddeb_files =
                                  IF dev \in {"None", "file"} THEN deb_ddeb_files ELSE 0,
                              !.new_dev_path = Path(dev),
                              !.new_ddeb_path =
                                  IF dev \in {"None", "file"} THEN Path(ddeb) ELSE "None"]
              /\ IF dev = "IndexError"
                 THEN pc' = "raised" /\ ret' = 0
                 ELSE IF dev = "ERROR : multiple detected"
                 THEN pc' = "returned" /\ ret' = -1
                 ELSE IF ddeb = "ERROR : multiple detected"
                 THEN pc' = "returned" /\ ret' = 0
                 ELSE pc' = "fetch" /\ ret' = 0
    /\ UNCHANGED <<dirs, folder, file, repo_ret, final_ret>>
    /\ UNCHANGED builderVars

\* extract_deb of the new packages, apt-get update, apt-get download of the
\* old packages, and what the download directory then holds.
FetchOld ==
    /\ pc = "fetch"
    /\ \E update \in BOOLEAN, download \in BOOLEAN, old_deb_file \in BOOLEAN,
          old_version \in OldVersions,
          old_dev_file \in {"None", "file"}, old_ddeb_file \in {"None", "file"} :
          LET name == dirs[folder][file]
          IN  IF ~update
              THEN /\ pc' = "returned" /\ ret' = RETURN_PPA_ERROR
                   /\ UNCHANGED <<frame, global_checker_results>>
              ELSE IF ~download
              THEN /\ pc' = "returned" /\ ret' = RETURN_PPA_PACKAGE_NOT_FOUND
                   /\ UNCHANGED <<frame, global_checker_results>>
              ELSE IF ~old_deb_file
              THEN /\ pc' = "raised" /\ ret' = 0
                   /\ global_checker_results' =
                          [global_checker_results EXCEPT
                              ![name].old_deb_name = "ERROR : None found"]
                   /\ UNCHANGED frame
              ELSE /\ pc' = "compare" /\ ret' = 0
                   /\ global_checker_results' =
                          [global_checker_results EXCEPT ![name].old_deb_name = "file"]
                   /\ frame' = [frame EXCEPT !.old_version = old_version,
                                             !.old_dev_path = old_dev_file,
                                             !.old_ddeb_path = old_ddeb_file]
    /\ UNCHANGED <<dirs, folder, file, repo_ret, final_ret>>
    /\ UNCHANGED builderVars


\* compare_with_abipkgdiff, the classification of its exit status, the
\* remark, and analyze_abi_diff_result on the two versions.
Compare ==
    /\ pc = "compare"
    /\ \E abidiff_result \in ExitStatuses, output \in Reports :
          LET name   == dirs[folder][file]
              c      == Classify(abidiff_result, output)
              f      == [frame EXCEPT
                            !.abidiff_result = c.abidiff_result,
                            !.bit4 = c.bit4,
                            !.abi_pkg_diff_output = c.abi_pkg_diff_output]
              policy == analyze_abi_diff_result(f.old_version, f.new_version,
                                                f.abidiff_result)
              result == [global_checker_results[name] EXCEPT
                            !.abi_pkg_diff_result = c.abi_pkg_diff_result]
              remarked == [result EXCEPT !.abi_pkg_diff_remark = Remark(f)]
          IN  /\ frame' = f
              /\ IF c.exit = "raise"
                 THEN /\ global_checker_results' =
                             Store(global_checker_results, name, result)
                      /\ pc' = "raised" /\ ret' = 0
                 ELSE IF c.exit = "return"
                 THEN /\ global_checker_results' =
                             Store(global_checker_results, name, result)
                      /\ pc' = "returned" /\ ret' = c.return_value
                 ELSE IF policy.raised
                 THEN /\ global_checker_results' =
                             Store(global_checker_results, name, remarked)
                      /\ pc' = "raised" /\ ret' = 0
                 ELSE /\ global_checker_results' =
                             Store(global_checker_results, name,
                                   [remarked EXCEPT
                                       !.abi_pkg_diff_version_check = policy.result])
                      /\ pc' = "returned" /\ ret' = c.return_value
    /\ UNCHANGED <<dirs, folder, file, repo_ret, final_ret>>
    /\ UNCHANGED builderVars

\* final_ret = final_ret | ret, then the next deb_file; after the last one
\* 'return final_ret' and 'final_ret |=' of multiple_repo_deb_abi_checker.
PackageReturned ==
    /\ pc = "returned"
    /\ repo_ret' = BitOr(repo_ret, ret)
    /\ IF file < Len(dirs[folder])
       THEN /\ file' = file + 1
            /\ pc' = "single_repo"
            /\ UNCHANGED <<folder, final_ret>>
       ELSE /\ final_ret' = BitOr(final_ret, repo_ret')
            /\ folder' = folder + 1
            /\ file' = 0
            /\ pc' = "multiple_repo"
    /\ frame' = NoFrame
    /\ ret' = 0
    /\ UNCHANGED <<dirs, global_checker_results>>
    /\ UNCHANGED builderVars

\* except Exception as e: traceback.print_exc(); sys.exit(-1)
OnExceptionContinue(position) == "returned"

OnException(position) == "exit"

\* An exception of single_package_abi_checker passes through
\* single_repo_deb_abi_checker to the except clause of the batch.
ExceptionRaised ==
    /\ pc = "raised"
    /\ pc' = OnException(pc)
    /\ frame' = NoFrame
    /\ UNCHANGED <<dirs, global_checker_results, folder, file, ret, repo_ret, final_ret>>
    /\ UNCHANGED builderVars

\* After the last folder: produce_report(log_file); return final_ret.
ProduceReport ==
    /\ pc = "multiple_repo"
    /\ folder > Len(dirs)
    /\ pc' = "done"
    /\ UNCHANGED <<dirs, global_checker_results, folder, file, frame, ret, repo_ret, final_ret>>
    /\ UNCHANGED builderVars

\* build.py: 'if check_passed:' on the integer the batch returned.
check_passed(code) == code # 0

\* check_passed = multiple_repo_deb_abi_checker(...); if check_passed:
\* logger.info("ABI check passed.") else: logger.critical("ABI check failed.")
ReportCheck ==
    /\ pc = "done"
    /\ pc' = IF check_passed(final_ret) THEN "ABI check passed." ELSE "ABI check failed."
    /\ UNCHANGED <<dirs, global_checker_results, folder, file, frame, ret, repo_ret, final_ret>>
    /\ UNCHANGED builderVars

NextAbi ==
    \/ EnterFolder
    \/ LocateNew
    \/ FetchOld
    \/ Compare
    \/ PackageReturned
    \/ ExceptionRaised
    \/ ProduceReport
    \/ ReportCheck

SpecAbi == InitAbi /\ [][NextAbi]_vars


(***************************************************************************)
(* The comparison in hand, as the properties speak of it.                  *)
(***************************************************************************)

\* The record of the core package single_package_abi_checker was called for.
InHand == pc \in {"fetch", "compare", "returned", "raised", "exit"}

Rec == global_checker_results[dirs[folder][file]]

PassVerdicts ==
    {"PASS : Major version increased", "PASS : Minor version increased",
     "PASS : Patch version increased", "PASS : No version increase"}

FailVerdicts ==
    {"FAIL : Minor version increased, needed major increase",
     "FAIL : Patch version increased, needed major increase",
     "FAIL : Patch version increased, needed minor increase",
     "FAIL : No version increase"}

\* A version of the form major.minor.patch, with whatever follows it.
WellFormed(version) ==
    /\ Len(version) >= 5
    /\ \A i \in {1, 3, 5} : version[i] \in Digits
    /\ \A i \in {2, 4} : version[i] = "."

\* Component i (1 major, 2 minor, 3 patch) of the new version is greater
\* than that of the old one.
Increased(i) == int(frame.new_version[2 * i - 1]) > int(frame.old_version[2 * i - 1])

\* The policy check has returned a verdict for the comparison in hand.
Checked == pc = "returned" /\ Rec.abi_pkg_diff_version_check # "None"

IncompatibleChange == Bit(frame.abidiff_result, 2) = 1 /\ Bit(frame.abidiff_result, 3) = 1

CompatibleChange == Bit(frame.abidiff_result, 2) = 1 /\ Bit(frame.abidiff_result, 3) = 0

NoChange == Bit(frame.abidiff_result, 2) = 0 /\ Bit(frame.abidiff_result, 3) = 0

\* C11: for well-formed versions the verdict of analyze_abi_diff_result is
\* PASS for an incompatible change exactly when the major component strictly
\* increased, PASS for a compatible change exactly when the major or the minor
\* component strictly increased, and always PASS when nothing changed.
C11_VersionPolicy ==
    Checked =>
        /\ WellFormed(frame.old_version) /\ WellFormed(frame.new_version)
        /\ Rec.abi_pkg_diff_version_check \in PassVerdicts \cup FailVerdicts
        /\ IncompatibleChange =>
              (Rec.abi_pkg_diff_version_check \in PassVerdicts <=> Increased(1))
        /\ CompatibleChange =>
              (Rec.abi_pkg_diff_version_check \in PassVerdicts
                  <=> (Increased(1) \/ Increased(2)))
        /\ NoChange => Rec.abi_pkg_diff_version_check \in PassVerdicts

\* An incompatible change with the minor component increased and the major
\* one not has been given a FAIL verdict.
C11_Witness ==
    /\ Checked
    /\ IncompatibleChange
    /\ Increased(2) /\ ~Increased(1)
    /\ Rec.abi_pkg_diff_version_check \in FailVerdicts


\* The diff tool has run for the comparison in hand and its exit status had
\* bit 2 set and bits 0, 1 and 3 clear.
CompatibleOnly ==
    /\ pc \in {"returned", "raised"}
    /\ Bit(frame.abidiff_result, 2) = 1
    /\ Bit(frame.abidiff_result, 0) = 0 /\ Bit(frame.abidiff_result, 1) = 0
    /\ frame.bit4 = 0

\* The report states a changed-function count greater than 0.
ChangedFunctions ==
    frame.abi_pkg_diff_output.summary /\ frame.abi_pkg_diff_output.changed > 0

\* C12: an exit status with bit 2 set and bits 0, 1, 3 clear whose report
\* counts N > 0 changed functions is classified INCOMPATIBLE-DIFF, returns 2
\* and is policy-checked as an incompatible change (PASS only on a major
\* increase); with N = 0 or without a summary line it is COMPATIBLE-DIFF and
\* returns 1.
C12_ChangedFunctionsEscalate ==
    CompatibleOnly =>
        IF ChangedFunctions
        THEN /\ Rec.abi_pkg_diff_result = "INCOMPATIBLE-DIFF"
             /\ pc = "returned" =>
                   /\ ret = RETURN_ABI_INCOMPATIBLE_DIFF
                   /\ Rec.abi_pkg_diff_version_check \in PassVerdicts <=> Increased(1)
        ELSE /\ Rec.abi_pkg_diff_result = "COMPATIBLE-DIFF"
             /\ pc = "returned" => ret = RETURN_ABI_COMPATIBLE_DIFF

\* A compatible-only exit status with changed functions has returned 2, and
\* a minor increase has not passed the policy check.
C12_Witness ==
    /\ CompatibleOnly /\ ChangedFunctions
    /\ pc = "returned" /\ ret = RETURN_ABI_INCOMPATIBLE_DIFF
    /\ Increased(2) /\ ~Increased(1)
    /\ Rec.abi_pkg_diff_version_check \in FailVerdicts


\* The diff tool has run for the comparison in hand and bit 0 of its exit
\* status was set.
ToolErrorStatus ==
    pc \in {"returned", "raised"} /\ Bit(frame.abidiff_result, 0) = 1

\* The batch has ended in sys.exit(-1) on a record classified ERROR.
ExitedOnError == pc = "exit" /\ Rec.abi_pkg_diff_result = "ERROR"

\* C13: an exit status with bit 0 set, whatever its other bits, leaves the
\* record classified ERROR and single_package_abi_checker raising instead of
\* returning; the exception ends multiple_repo_deb_abi_checker in
\* sys.exit(-1), and after that no folder or package is processed and the
\* results table and the aggregate stay as they were.
C13_ToolErrorStopsBatch ==
    [][ /\ ToolErrorStatus' => (pc' = "raised" /\ Rec'.abi_pkg_diff_result = "ERROR")
        /\ ToolErrorStatus =>
              /\ pc' = "exit"
              /\ UNCHANGED <<folder, file, global_checker_results, repo_ret, final_ret>>
        /\ ~ExitedOnError ]_vars

\* The batch has ended on a tool error in its first folder, with a second
\* folder that was never entered.
C13_Witness == ExitedOnError /\ folder = 1 /\ Len(dirs) = 2


\* The diff tool has run for the comparison in hand; bit 0 of its exit
\* status was clear and bit 1 set.
StrippedStatus ==
    /\ pc \in {"returned", "raised"}
    /\ Bit(frame.abidiff_result, 0) = 0
    /\ Bit(frame.abidiff_result, 1) = 1

\* C14: an exit status with bit 0 clear and bit 1 set is classified
\* STRIPPED-PACKAGE and returns 4 whatever bits 2 and 3 are; the record gets
\* no compatible or incompatible classification and no version-policy
\* verdict.
C14_StrippedPackage ==
    StrippedStatus =>
        /\ pc = "returned"
        /\ ret = RETURN_ABI_STRIPPED_PACKAGE
        /\ Rec.abi_pkg_diff_result = "STRIPPED-PACKAGE"
        /\ Rec.abi_pkg_diff_version_check = "None"

\* An exit status with bits 1, 2 and 3 set has returned 4.
C14_Witness ==
    /\ StrippedStatus
    /\ Bit(frame.abidiff_result, 2) = 1 /\ Bit(frame.abidiff_result, 3) = 1
    /\ ret = RETURN_ABI_STRIPPED_PACKAGE


\* The highest-order component that strictly increased, tested in the order
\* major, minor, patch.
Highest ==
    IF Increased(1) THEN "Major"
    ELSE IF Increased(2) THEN "Minor"
    ELSE IF Increased(3) THEN "Patch"
    ELSE "No"

\* The verdict texts that name a component.
Naming(component) ==
    CASE component = "Major" -> {"PASS : Major version increased"}
      [] component = "Minor" ->
             {"PASS : Minor version increased",
              "FAIL : Minor version increased, needed major increase"}
      [] component = "Patch" ->
             {"PASS : Patch version increased",
              "FAIL : Patch version increased, needed major increase",
              "FAIL : Patch version increased, needed minor increase"}
      [] component = "No" -> {"PASS : No version increase", "FAIL : No version increase"}

\* C15: the verdict text names the highest-order component that strictly
\* increased: no-diff with only the patch increased is "PASS : Patch version
\* increased", a compatible diff with the minor increased and the major not
\* is "PASS : Minor version increased", an incompatible diff with only the
\* patch increased is "FAIL : Patch version increased, needed major
\* increase", and with no component increased the text is "No version
\* increase", PASS for no-diff and FAIL otherwise.
C15_VerdictNamesHighest ==
    Checked =>
        /\ Rec.abi_pkg_diff_version_check \in Naming(Highest)
        /\ (NoChange /\ Highest = "Patch") =>
              Rec.abi_pkg_diff_version_check = "PASS : Patch version increased"
        /\ (CompatibleChange /\ Highest = "Minor") =>
              Rec.abi_pkg_diff_version_check = "PASS : Minor version increased"
        /\ (IncompatibleChange /\ Highest = "Patch") =>
              Rec.abi_pkg_diff_version_check
                  = "FAIL : Patch version increased, needed major increase"
        /\ Highest = "No" =>
              Rec.abi_pkg_diff_version_check
                  = IF NoChange THEN "PASS : No version increase"
                    ELSE "FAIL : No version increase"

\* Minor and patch have both increased and the verdict of a compatible diff
\* names the minor component.
C15_Witness ==
    /\ Checked
    /\ CompatibleChange
    /\ ~Increased(1) /\ Increased(2) /\ Increased(3)
    /\ Rec.abi_pkg_diff_version_check = "PASS : Minor version increased"


\* The diff tool has run for the comparison in hand.
Compared == pc \in {"returned", "raised"} /\ Rec.old_deb_name = "file"

\* The comparison in hand got as far as the version policy check: no bit of
\* the exit status made it leave before.
PolicyChecked ==
    /\ Compared
    /\ Bit(frame.abidiff_result, 0) = 0 /\ Bit(frame.abidiff_result, 1) = 0

Malformed == ~WellFormed(frame.old_version) \/ ~WellFormed(frame.new_version)

\* C16: when the old or the new version handed to the policy check is not of
\* the form major.minor.patch after the extraction of the upstream version,
\* the check raises and the record gets no PASS or FAIL verdict, whether the
\* classification is NO-DIFF, COMPATIBLE-DIFF or INCOMPATIBLE-DIFF.
C16_MalformedVersionRaises ==
    (PolicyChecked /\ Malformed) =>
        /\ pc = "raised"
        /\ Rec.abi_pkg_diff_version_check = "None"

\* The policy check has raised on a malformed old version, with a well-formed
\* new one whose major component is greater, after a compatible diff.
C16_Witness ==
    /\ PolicyChecked
    /\ ~WellFormed(frame.old_version) /\ WellFormed(frame.new_version)
    /\ int(frame.new_version[1]) > int(frame.old_version[1])
    /\ Rec.abi_pkg_diff_result = "COMPATIBLE-DIFF"
    /\ pc = "raised"


\* C17: what single_repo_deb_abi_checker returns (repo_ret, once its loop is
\* done) and what multiple_repo_deb_abi_checker returns (final_ret) is an
\* integer in 0..31, the OR of the bits 1, 2, 4, 8, 16 of the packages,
\* whatever their outcomes were, ambiguity aborts included.
C17_AggregateIsBitmask ==
    /\ pc = "multiple_repo" => repo_ret \in 0..31
    /\ pc = "done" => final_ret \in 0..31


Classifications == {"NO-DIFF", "COMPATIBLE-DIFF", "INCOMPATIBLE-DIFF", "STRIPPED-PACKAGE"}

DevMissing == frame.old_dev_path = "None" \/ frame.new_dev_path = "None"

DbgMissing == frame.old_ddeb_path = "None" \/ frame.new_ddeb_path = "None"

\* C18: when the comparison in hand has ended with one of the classifications
\* NO-DIFF, COMPATIBLE-DIFF, INCOMPATIBLE-DIFF, STRIPPED-PACKAGE and a -dev
\* package was missing on the old or the new side, the remark of the record
\* includes NO-DEV-PACKAGE, and NO-DBG-PACKAGE too when a debug package was
\* missing.
C18_MissingDevRemarked ==
    (Compared /\ Rec.abi_pkg_diff_result \in Classifications /\ DevMissing) =>
        Rec.abi_pkg_diff_remark
            = IF DbgMissing THEN "NO-DEV-PACKAGE, NO-DBG-PACKAGE" ELSE "NO-DEV-PACKAGE"


\* The diff tool has run for the comparison in hand and its exit status does
\* not report a tool error.
NoToolError == Compared /\ Bit(frame.abidiff_result, 0) = 0

\* What the version policy check refuses: a malformed version, or an exit
\* status with bit 3 set and bit 2 clear.
Rejected ==
    /\ Bit(frame.abidiff_result, 1) = 0
    /\ \/ Malformed
       \/ Bit(frame.abidiff_result, 3) = 1 /\ Bit(frame.abidiff_result, 2) = 0

\* The old package could not be downloaded: the comparison in hand left
\* single_package_abi_checker from the fetch of the old packages.
NotDownloaded == pc \in {"returned", "raised"} /\ Rec.old_deb_name = "None"

\* The loop of single_repo_deb_abi_checker takes the next core package, or
\* the loop of multiple_repo_deb_abi_checker the next folder.
GoesOn ==
    IF file < Len(dirs[folder])
    THEN pc' = "single_repo" /\ file' = file + 1 /\ folder' = folder
    ELSE pc' = "multiple_repo" /\ folder' = folder + 1

ManyCandidates == frame.deb_dev_files > 1 \/ frame.deb_ddeb_files > 1

\* More than one -dev file is left by the filter on "<name without
\* major>-dev", or more than one -dbgsym file matches.
Ambiguous == frame.deb_dev_file > 1 \/ frame.deb_ddeb_files > 1

\* The comparison in hand ended before anything was extracted, fetched or
\* compared, and its record holds no classification and no verdict.
Aborted ==
    /\ pc = "returned"
    /\ Rec.old_deb_name = "None"
    /\ Rec.abi_pkg_diff_result = "None"
    /\ Rec.abi_pkg_diff_version_check = "None"

RECURSIVE FilesBefore(_)
FilesBefore(f) == IF f <= 1 THEN 0 ELSE Len(dirs[f - 1]) + FilesBefore(f - 1)

Processed == FilesBefore(folder) + (IF pc = "single_repo" THEN file - 1 ELSE file)

\* C21: the results table is append-only: a record once inserted is never
\* replaced or removed, so that the table holds one record for every core
\* package processed, also when two core .deb files of one folder or of two
\* folders have the same package name.
C21_OneRecordPerPackage ==
    Cardinality(DOMAIN global_checker_results) = Processed


\* The exit status as the diff tool returned it: bit 3 as it was before the
\* override for changed functions.
RawStatus ==
    frame.abidiff_result - 8 * Bit(frame.abidiff_result, 3) + 8 * frame.bit4

\* The changed-function count of the report, 0 without a summary line.
ChangedCount ==
    IF frame.abi_pkg_diff_output.summary THEN frame.abi_pkg_diff_output.changed ELSE 0

\* How the comparison in hand ended: its classification, whether it raised,
\* the code it returned and its policy verdict.
Outcome ==
    [classification |-> Rec.abi_pkg_diff_result,
     raised         |-> pc = "raised",
     code           |-> IF pc = "returned" THEN ret ELSE 0,
     verdict        |-> Rec.abi_pkg_diff_version_check]

\* The outcome as a function of the exit status, the changed-function count
\* and the two versions, and of nothing else.
OutcomeOf(exit_status, changed, old_version, new_version) ==
    LET error        == exit_status % 2 = 1
        stripped     == ~error /\ Bit(exit_status, 1) = 1
        escalated    == Bit(exit_status, 2) = 1 /\ changed > 0
        incompatible == Bit(exit_status, 3) = 1 \/ escalated
        policy       == analyze_abi_diff_result(
                            old_version, new_version,
                            IF escalated THEN BitOr(exit_status, 8) ELSE exit_status)
        refused      == ~error /\ ~stripped /\ policy.raised
    IN  [classification |->
             IF exit_status = 0 THEN "NO-DIFF"
             ELSE IF error THEN "ERROR"
             ELSE IF stripped THEN "STRIPPED-PACKAGE"
             ELSE IF incompatible THEN "INCOMPATIBLE-DIFF"
             ELSE IF Bit(exit_status, 2) = 1 THEN "COMPATIBLE-DIFF"
             ELSE "None",
         raised |-> error \/ refused,
         code |->
             IF error \/ refused THEN 0
             ELSE IF stripped THEN 4
             ELSE IF incompatible THEN 2
             ELSE IF Bit(exit_status, 2) = 1 THEN 1
             ELSE 0,
         verdict |->
             IF error \/ stripped \/ refused THEN "None" ELSE policy.result]

IncompatibleAlone ==
    /\ Compared
    /\ frame.bit4 = 1
    /\ Bit(RawStatus, 0) = 0 /\ Bit(RawStatus, 1) = 0 /\ Bit(RawStatus, 2) = 0

\* C23: an exit status with bit 3 set and bits 0, 1 and 2 clear is rejected:
\* the comparison raises, returns no code and records no PASS or FAIL
\* verdict for the package.
C23_IncompatibleAloneRejected ==
    IncompatibleAlone =>
        /\ pc = "raised"
        /\ Rec.abi_pkg_diff_version_check = "None"

\* Exit status 8 has made the policy check raise on two well-formed
\* versions, the major component increased.
C23_Witness ==
    /\ IncompatibleAlone
    /\ RawStatus = 8
    /\ WellFormed(frame.old_version) /\ WellFormed(frame.new_version)
    /\ frame.old_version[6] = "-"
    /\ Increased(1)
    /\ pc = "raised"


(***************************************************************************)
(* C24: in build_specific_package every descriptor is marked visited       *)
(* before its build_package is attempted, so that a descriptor whose build *)
(* fails stays visited and a later build_specific_package call of the      *)
(* session skips it.                                                       *)
(***************************************************************************)
C24_VisitedBeforeBuild ==
    Targeted => \A k \in 1..Len(built) : visited[built[k].package]


(***************************************************************************)
(* The build session when BUILD_PACKAGE_NAME is given: build.py calls      *)
(* build_specific_package and never build_all_packages. The session is a   *)
(* sequential program, it takes its next step as long as it has one.       *)
(***************************************************************************)
NextTargeted ==
    \/ CallSpecific
    \/ VisitDependency
    \/ BuildSpecific

SpecTargeted == Init /\ [][NextTargeted]_vars /\ WF_vars(NextTargeted)

\* build_specific_package has returned to build.py or raised up to it.
Ended == status \in {"done", "PackageBuildError", "PackageNotFoundError"}

\* No descriptor has two activations of build_specific_package.
NoRevisit ==
    \A i, j \in 1..Len(stack) : i # j => stack[i].package # stack[j].package

(***************************************************************************)
(* C25: build_specific_package terminates on every descriptor table, also  *)
(* when the dependency graph has a cycle or a self-dependency: the         *)
(* recursion never enters a descriptor that is already on the call stack.  *)
(***************************************************************************)
C25_SpecificTerminates ==
    /\ []NoRevisit
    /\ (status = "specific") ~> Ended

\* A targeted build on a table with a self-dependency and a cycle through
\* two descriptors has ended with three recursive calls made.
C25_Witness ==
    /\ Targeted /\ Ended
    /\ ~Acyclic(packages)
    /\ Len(packages) >= 2
    /\ Len(requested) >= 2
    /\ \E r \in 1..Len(requested) :
          requested[r].dep \in packages[requested[r].package].packages


(***************************************************************************)
(* C26: when build_all_packages completes without error on an acyclic      *)
(* descriptor table, every loaded descriptor has been built exactly once   *)
(* and is marked visited, also when two descriptors produce the same       *)
(* package name.                                                           *)
(***************************************************************************)
C26_AllBuiltOnce ==
    (Sorted /\ status = "done" /\ Acyclic(packages)) =>
        \A d \in DOMAIN packages :
            /\ Cardinality({k \in 1..Len(built) : built[k].package = d}) = 1
            /\ visited[d]


\* The new version is greater than the old one in the lexicographic order
\* of (major, minor, patch).
LexGreater ==
    \/ Increased(1)
    \/ /\ int(frame.new_version[1]) = int(frame.old_version[1])
       /\ \/ Increased(2)
          \/ /\ int(frame.new_version[3]) = int(frame.old_version[3])
             /\ Increased(3)

\* C27: whenever the policy check returns a PASS verdict for a compatible or
\* an incompatible change, the new upstream version is strictly greater than
\* the old one in (major, minor, patch) lexicographic order: a downgrade
\* never passes for a detected difference.
C27_PassImpliesGreaterVersion ==
    (/\ Checked
     /\ CompatibleChange \/ IncompatibleChange
     /\ Rec.abi_pkg_diff_version_check \in PassVerdicts) => LexGreater


\* single_repo_deb_abi_checker has just returned for the folder before
\* 'folder', which held core .deb files: repo_ret is what it returned.
FolderDone ==
    /\ pc \in {"multiple_repo", "done"}
    /\ folder > 1
    /\ dirs[folder - 1] # <<>>

\* C28: single_repo_deb_abi_checker returns 0 only if the folder holds no
\* core .deb or every core package of the folder was compared and classified
\* NO-DIFF: a package whose comparison was aborted or never classified
\* never contributes a clean 0.
C28_ZeroOnlyIfAllNoDiff ==
    /\ (FolderDone /\ repo_ret = 0) =>
          \A f \in 1..Len(dirs[folder - 1]) :
              global_checker_results[dirs[folder - 1][f]].abi_pkg_diff_result = "NO-DIFF"
    /\ (pc = "returned" /\ ret = 0) => Rec.abi_pkg_diff_result = "NO-DIFF"


\* The classification that goes with a returned code.
ClassificationOf(code) ==
    CASE code = RETURN_ABI_NO_DIFF -> "NO-DIFF"
      [] code = RETURN_ABI_COMPATIBLE_DIFF -> "COMPATIBLE-DIFF"
      [] code = RETURN_ABI_INCOMPATIBLE_DIFF -> "INCOMPATIBLE-DIFF"
      [] code = RETURN_ABI_STRIPPED_PACKAGE -> "STRIPPED-PACKAGE"
      [] OTHER -> "ERROR"

\* C29: whenever single_package_abi_checker returns after the diff tool has
\* run, whatever the exit status, the returned code and the recorded
\* classification agree (0 with NO-DIFF, 1 with COMPATIBLE-DIFF, 2 with
\* INCOMPATIBLE-DIFF, 4 with STRIPPED-PACKAGE), and a policy verdict is
\* recorded only with one of the classifications NO-DIFF, COMPATIBLE-DIFF,
\* INCOMPATIBLE-DIFF.
C29_CodeMatchesClassification ==
    (Compared /\ pc = "returned") =>
        /\ Rec.abi_pkg_diff_result = ClassificationOf(ret)
        /\ Rec.abi_pkg_diff_version_check # "None" =>
              Rec.abi_pkg_diff_result \in {"NO-DIFF", "COMPATIBLE-DIFF", "INCOMPATIBLE-DIFF"}


\* build.py has logged the result of the ABI checking phase.
Reported == pc \in {"ABI check passed.", "ABI check failed."}

\* One of the bits compatible, incompatible, stripped, not found, fetch
\* error is set in the aggregate.
SomeBitSet == final_ret # 0

\* C30: build.py reports "ABI check passed." only when the aggregate
\* returned by multiple_repo_deb_abi_checker is 0, and "ABI check failed."
\* whenever one of its bits is set.
C30_PassedOnlyOnZero ==
    Reported =>
        /\ pc = "ABI check passed." => final_ret = 0
        /\ SomeBitSet => pc = "ABI check failed."

====
